---- MODULE Spec2Model ----
(***************************************************************************)
(* Model of shart (src/main.py): a one-shot, token-protected file upload / *)
(* share server.  The state is the TokenStore, the closure variables of    *)
(* build_app / build_share_app, the upload directory, the requests in      *)
(* flight on the event loop, the delayed-SIGINT threads and the process.   *)
(*                                                                         *)
(* The handlers are "async def": they run on one event loop and give up    *)
(* control only at an "await".  Every action below is one run of handler   *)
(* code between two awaits (or the whole handler when it has none).        *)
(***************************************************************************)
EXTENDS Integers, Sequences, FiniteSets, TLC

VARIABLES
    phase,              \* main(): "start", "serving", "stopping", "exited"
    exitCode,           \* value returned by main(), -1 while running
    mode,               \* "none", "upload" (build_app), "share" (build_share_app)
    now,                \* the UTC wall clock, in ticks
    token_to_expiry,    \* TokenStore._token_to_expiry
    exit_on_upload,     \* args.exit_on_upload
    shutdown_triggered, \* the nonlocal flag of the app that was built
    items,              \* build_share_app's items: sequence of [display, path]
    existing,           \* paths of share items that exist on disk
    tempDir,            \* prepare_share_items' temp_dir: "none", "present", "removed"
    atexitRegistered,   \* whether main() registered the rmtree of temp_dir
    disk,               \* upload_dir: target name -> <<request, file index>> last written
    written,            \* every write_bytes that succeeded: [req, idx, name]
    req,                \* the requests
    thread,             \* the _shutdown thread started by each request
    sigints,            \* SIGINTs sent by os.kill
    issued,             \* history: the expiries passed to add_token, per token
    probe,              \* the last is_valid call: its token, its instant, its result
    share_args,         \* args.share: the paths given to --share, None without it
    sanitize_call       \* the last sanitize_filename call: its input, its instant, its output

vars == <<phase, exitCode, mode, now, token_to_expiry, exit_on_upload,
          shutdown_triggered, items, existing, tempDir, atexitRegistered,
          disk, written, req, thread, sigints, issued, probe, share_args, sanitize_call>>

----------------------------------------------------------------------------
(* Bounds *)

NumReqs == 2
MaxTicks == 2
MaxFiles == 2

Reqs == 1..NumReqs

(* The clock counts seconds: strftime("%Y%m%dT%H%M%S") and int(time.time())  *)
(* both drop what is below a second, so two instants of the model that      *)
(* share a clock value are two moments inside the same second.              *)
SecondsPerMinute == 60

(* Time passes in steps of a minute; at most MaxTicks steps. *)
Steps == {SecondsPerMinute}
StepsTaken(t) == t \div SecondsPerMinute

None == <<>>

Tokens == {"tok", "bad"}
IssuedToken == "tok"
TtlMinutes == {0, 1}

----------------------------------------------------------------------------
(* TokenStore *)

EmptyStore == [t \in Tokens |-> None]

(* A variant of add_token that only ever extends: a token already known   *)
(* keeps the later of its two expiries.                                    *)
add_token_extends(store, token, expires_at) ==
    IF store[token] # None /\ store[token][1] > expires_at THEN store
    ELSE [store EXCEPT ![token] = <<expires_at>>]

add_token(store, token, expires_at) == [store EXCEPT ![token] = <<expires_at>>]

(* Variants of is_valid with a plausible slip: the instant of expiry       *)
(* excluded; the expiry never compared.                                    *)
is_valid_strict(store, token, t) ==
    LET expires_at == store[token]
    IN  IF expires_at = None THEN FALSE ELSE t < expires_at[1]

is_valid_never_expires(store, token, t) ==
    LET expires_at == store[token]
    IN  IF expires_at = None THEN FALSE ELSE TRUE

is_valid(store, token, t) ==
    LET expires_at == store[token]
    IN  IF expires_at = None THEN FALSE ELSE t <= expires_at[1]

----------------------------------------------------------------------------
(* sanitize_filename: names are sequences of one-character strings *)

AlnumChars == {"a", "b", "0"}
KeepChars == {"-", "_", ".", "(", ")", " "}

RECURSIVE Filter(_)
Filter(s) ==
    IF s = <<>> THEN <<>>
    ELSE IF Head(s) \in AlnumChars \/ Head(s) \in KeepChars
         THEN <<Head(s)>> \o Filter(Tail(s))
         ELSE Filter(Tail(s))

sanitize_filename(filename, t) ==
    LET sanitized == Filter(filename)
    IN  IF sanitized = <<>> THEN <<"file_", ToString(t)>>
        ELSE sanitized

Timestamp(t) == ToString(t)

TargetName(timestamp, original) == <<timestamp, "_">> \o original

----------------------------------------------------------------------------
(* prepare_share_items *)

PathKind(p) ==
    CASE p = "fa" -> "file"
      [] p = "db" -> "dir"
      [] p = "sock" -> "special"
      [] OTHER -> "missing"

PathName(p) ==
    CASE p = "fa" -> <<"a">>
      [] p = "db" -> <<"/", "b">>
      [] OTHER -> <<"/">>

SharePathLists == {<<"fa">>, <<"fa", "db">>, <<"sock", "fa">>, <<"db", "nope">>}

SourcePath(p) == [loc |-> "fs", name |-> p]
ArchivePath(p) == [loc |-> "tmp", name |-> p]

RECURSIVE ShareItems(_, _)
ShareItems(paths, t) ==
    IF paths = <<>> THEN <<>>
    ELSE LET pp == Head(paths)
             rest == ShareItems(Tail(paths), t)
         IN  CASE PathKind(pp) = "file" ->
                    <<[display |-> sanitize_filename(PathName(pp), t),
                       path |-> SourcePath(pp)]>> \o rest
               [] PathKind(pp) = "dir" ->
                    <<[display |-> sanitize_filename(PathName(pp), t) \o <<".zip">>,
                       path |-> ArchivePath(pp)]>> \o rest
               [] OTHER -> rest

AnyMissing(paths) == \E i \in 1..Len(paths) : PathKind(paths[i]) = "missing"
AnyDir(paths) == \E i \in 1..Len(paths) : PathKind(paths[i]) = "dir"

(* A variant that checks each path only when the loop reaches it: a       *)
(* directory before the missing path is already archived.                  *)
prepare_share_items_lazy(paths, t, archiveFails) ==
    IF AnyMissing(paths)
    THEN [raised |-> TRUE, items |-> <<>>,
          temp_dir |-> IF AnyDir(paths) THEN "present" ELSE "none"]
    ELSE IF AnyDir(paths) /\ archiveFails
    THEN [raised |-> TRUE, items |-> <<>>, temp_dir |-> "present"]
    ELSE [raised |-> FALSE, items |-> ShareItems(paths, t),
          temp_dir |-> IF AnyDir(paths) THEN "present" ELSE "none"]

(* The result of the call: raised (an exception left it), the items, and   *)
(* whether mkdtemp had run.  archiveFails: shutil.make_archive raises.     *)
prepare_share_items(paths, t, archiveFails) ==
    IF AnyMissing(paths)
    THEN [raised |-> TRUE, items |-> <<>>, temp_dir |-> "none"]
    ELSE IF AnyDir(paths) /\ archiveFails
    THEN [raised |-> TRUE, items |-> <<>>, temp_dir |-> "present"]
    ELSE [raised |-> FALSE, items |-> ShareItems(paths, t),
          temp_dir |-> IF AnyDir(paths) THEN "present" ELSE "none"]

----------------------------------------------------------------------------
(* Requests and responses *)

NoResp == [status |-> 0, body |-> <<>>]
Resp(status, body) == [status |-> status, body |-> body]

IdleReq ==
    [pc |-> "idle", route |-> "none", token |-> "", authorized |-> FALSE,
     files |-> <<>>, timestamp |-> "", original |-> <<>>,
     failed |-> FALSE, saved |-> <<>>, item |-> -1, status |-> 0, body |-> <<>>]

UploadNames == {<<"/", "a">>, <<"/">>}
FileLists == UNION {[1..n -> UploadNames] : n \in 1..MaxFiles}

InFlight(r) == req[r].pc \notin {"idle", "done"}

(* History: whether token was passed to add_token and instant t is at or  *)
(* before the expiry of its last add_token.  Each request records it, as   *)
(* "authorized", at the instant of its token check.                        *)
TokenLive(token, t) ==
    /\ issued[token] # <<>>
    /\ t <= issued[token][Len(issued[token])]

(* The requests are numbered in the order in which their handlers start. *)
Arrives(r) == req[r].pc = "idle" /\ \A q \in 1..(r - 1) : req[q].pc # "idle"

Answer(r, route, token, valid, resp) ==
    [IdleReq EXCEPT !.pc = "responding", !.route = route, !.token = token,
                    !.authorized = valid, !.status = resp.status,
                    !.body = resp.body]

----------------------------------------------------------------------------
(* The token checks of the routes *)

upload_page_gate(store, token, t) ==
    IF ~is_valid(store, token, t)
    THEN Resp(404, <<"Upload link expired or invalid">>)
    ELSE NoResp

upload_files_gate(store, token, t) ==
    IF ~is_valid(store, token, t)
    THEN Resp(404, <<"Upload link expired or invalid">>)
    ELSE NoResp

(* Variants of ensure_valid: the check left out; a message that tells an  *)
(* expired token from an unknown one.                                      *)
ensure_valid_skipped(store, token, t) == NoResp

ensure_valid_leaky(store, token, t) ==
    IF ~is_valid(store, token, t)
    THEN IF store[token] = None
         THEN Resp(404, <<"Share link invalid">>)
         ELSE Resp(404, <<"Share link expired">>)
    ELSE NoResp

ensure_valid(store, token, t) ==
    IF ~is_valid(store, token, t)
    THEN Resp(404, <<"Share link expired or invalid">>)
    ELSE NoResp

(* The shutdown blocks: the new value of the flag, and whether the          *)
(* _shutdown thread is started.                                             *)
(* Variants of the shutdown blocks: the flag not tested; exit_on not       *)
(* tested; the flag flipped instead of set.                                *)
upload_shutdown_block_untested(exit_on, triggered) ==
    IF exit_on THEN [triggered |-> TRUE, start |-> TRUE]
    ELSE [triggered |-> triggered, start |-> FALSE]

download_shutdown_block_always(exit_on, triggered) ==
    IF ~triggered THEN [triggered |-> TRUE, start |-> TRUE]
    ELSE [triggered |-> triggered, start |-> FALSE]

download_shutdown_block_flip(exit_on, triggered) ==
    IF exit_on
    THEN IF ~triggered THEN [triggered |-> TRUE, start |-> TRUE]
                       ELSE [triggered |-> FALSE, start |-> FALSE]
    ELSE [triggered |-> triggered, start |-> FALSE]

upload_shutdown_block(exit_on, triggered) ==
    IF exit_on
    THEN IF ~triggered THEN [triggered |-> TRUE, start |-> TRUE]
                       ELSE [triggered |-> triggered, start |-> FALSE]
    ELSE [triggered |-> triggered, start |-> FALSE]

download_shutdown_block(exit_on, triggered) ==
    IF exit_on
    THEN IF ~triggered THEN [triggered |-> TRUE, start |-> TRUE]
                       ELSE [triggered |-> triggered, start |-> FALSE]
    ELSE [triggered |-> triggered, start |-> FALSE]

----------------------------------------------------------------------------
(* The process before main() runs *)

Init ==
    /\ phase = "start"
    /\ exitCode = -1
    /\ mode = "none"
    /\ now = 0
    /\ token_to_expiry = EmptyStore
    /\ exit_on_upload = FALSE
    /\ shutdown_triggered = FALSE
    /\ items = <<>>
    /\ existing = {}
    /\ tempDir = "none"
    /\ atexitRegistered = FALSE
    /\ disk = {}
    /\ written = {}
    /\ req = [r \in Reqs |-> IdleReq]
    /\ thread = [r \in Reqs |-> "none"]
    /\ sigints = 0
    /\ issued = [t \in Tokens |-> <<>>]
    /\ probe = [token |-> "", at |-> 0, added |-> <<>>, result |-> FALSE]
    /\ share_args = None
    /\ sanitize_call = [input |-> <<>>, at |-> 0, output |-> <<>>]

(* main(): issue the token, prepare the share items or the upload          *)
(* directory, build the app and start serving; or return 2.                *)
Main(m, ttl, exit, paths, archiveFails) ==
    /\ phase = "start"
    /\ LET expires_at == now + ttl * SecondsPerMinute
           prep == prepare_share_items(paths, now, archiveFails)
       IN  /\ token_to_expiry' = add_token(token_to_expiry, IssuedToken, expires_at)
           /\ issued' = [issued EXCEPT ![IssuedToken] = Append(@, expires_at)]
           /\ IF m = "share"
              THEN /\ tempDir' = prep.temp_dir
                   /\ IF prep.raised
                      THEN /\ phase' = "exited"
                           /\ exitCode' = 2
                           /\ UNCHANGED <<mode, exit_on_upload, items, existing,
                                          atexitRegistered>>
                      ELSE /\ phase' = "serving"
                           /\ mode' = "share"
                           /\ exit_on_upload' = exit
                           /\ items' = prep.items
                           /\ existing' = {prep.items[i].path : i \in 1..Len(prep.items)}
                           /\ atexitRegistered' = (prep.temp_dir # "none")
                           /\ UNCHANGED exitCode
              ELSE /\ phase' = "serving"
                   /\ mode' = "upload"
                   /\ exit_on_upload' = exit
                   /\ UNCHANGED <<exitCode, items, existing, tempDir, atexitRegistered>>
    /\ share_args' = (IF m = "share" THEN paths ELSE None)
    /\ UNCHANGED <<now, shutdown_triggered, disk, written, req, thread, sigints, probe,
                   sanitize_call>>

(* Time passes. *)
Tick(d) ==
    /\ phase \in {"serving", "stopping"}
    /\ StepsTaken(now + d) <= MaxTicks
    /\ now' = now + d
    /\ UNCHANGED <<phase, exitCode, mode, token_to_expiry, exit_on_upload,
                   shutdown_triggered, items, existing, tempDir, atexitRegistered,
                   disk, written, req, thread, sigints, issued, probe, share_args, sanitize_call>>

----------------------------------------------------------------------------
(* build_app: the upload routes *)

Quiet == UNCHANGED <<phase, exitCode, mode, now, token_to_expiry, exit_on_upload,
                     items, existing, tempDir, atexitRegistered, sigints, issued,
                     probe, share_args, sanitize_call>>

upload_page(r, token, readFails) ==
    /\ phase = "serving" /\ mode = "upload" /\ Arrives(r)
    /\ LET gate == upload_page_gate(token_to_expiry, token, now)
           resp == IF gate # NoResp THEN gate
                   ELSE IF readFails THEN Resp(500, <<"Failed to read index.html">>)
                   ELSE Resp(200, <<"upload_form", token>>)
       IN  req' = [req EXCEPT ![r] = Answer(r, "upload_page", token,
                                            TokenLive(token, now), resp)]
    /\ Quiet
    /\ UNCHANGED <<shutdown_triggered, disk, written, thread>>

(* upload_files up to its first await: the token check, the timestamp and  *)
(* the first file's target name.                                           *)
upload_files(r, token, files) ==
    /\ phase = "serving" /\ mode = "upload" /\ Arrives(r)
    /\ LET gate == upload_files_gate(token_to_expiry, token, now)
           valid == TokenLive(token, now)
       IN  IF gate # NoResp
           THEN req' = [req EXCEPT ![r] = Answer(r, "upload_files", token, valid, gate)]
           ELSE req' = [req EXCEPT ![r] =
                           [IdleReq EXCEPT !.pc = "read", !.route = "upload_files",
                                           !.token = token, !.authorized = valid,
                                           !.files = files,
                                           !.timestamp = Timestamp(now),
                                           !.original = sanitize_filename(files[1], now)]]
    /\ Quiet
    /\ UNCHANGED <<shutdown_triggered, disk, written, thread>>

(* A variant of the write that checks the token again before each file. *)
upload_files_write_rechecks(r, writeFails) ==
    /\ phase \in {"serving", "stopping"} /\ req[r].pc = "read"
    /\ LET q == req[r]
           target_name == TargetName(q.timestamp, q.original)
           idx == Len(q.saved) + 1
           gate == upload_files_gate(token_to_expiry, q.token, now)
       IN  IF gate # NoResp
           THEN /\ req' = [req EXCEPT ![r] =
                               [Answer(r, q.route, q.token, q.authorized, gate)
                                   EXCEPT !.saved = q.saved]]
                /\ UNCHANGED <<disk, written>>
           ELSE IF writeFails
           THEN /\ req' = [req EXCEPT ![r].pc = "close", ![r].failed = TRUE]
                /\ UNCHANGED <<disk, written>>
           ELSE /\ req' = [req EXCEPT ![r].pc = "close"]
                /\ disk' = {d \in disk : d.name # target_name}
                              \cup {[name |-> target_name, by |-> <<r, idx>>]}
                /\ written' = written \cup
                                 {[req |-> r, idx |-> idx, name |-> target_name]}
    /\ Quiet
    /\ UNCHANGED <<shutdown_triggered, thread>>

(* After "await file.read()": write_bytes, which succeeds or raises        *)
(* OSError, up to "await file.close()".                                    *)
upload_files_write(r, writeFails) ==
    /\ phase \in {"serving", "stopping"} /\ req[r].pc = "read"
    /\ LET target_name == TargetName(req[r].timestamp, req[r].original)
           idx == Len(req[r].saved) + 1
       IN  IF writeFails
           THEN /\ req' = [req EXCEPT ![r].pc = "close", ![r].failed = TRUE]
                /\ UNCHANGED <<disk, written>>
           ELSE /\ req' = [req EXCEPT ![r].pc = "close"]
                /\ disk' = {d \in disk : d.name # target_name}
                              \cup {[name |-> target_name, by |-> <<r, idx>>]}
                /\ written' = written \cup
                                 {[req |-> r, idx |-> idx, name |-> target_name]}
    /\ Quiet
    /\ UNCHANGED <<shutdown_triggered, thread>>

(* A variant that runs the shutdown block after a failed write too. *)
upload_files_closed_counts_failure(r) ==
    /\ phase \in {"serving", "stopping"} /\ req[r].pc = "close"
    /\ LET q == req[r]
           target_name == TargetName(q.timestamp, q.original)
           sb == upload_shutdown_block(exit_on_upload, shutdown_triggered)
       IN  IF q.failed
           THEN /\ req' = [req EXCEPT ![r] =
                               [Answer(r, q.route, q.token, q.authorized,
                                       Resp(500, <<"Failed to save">> \o q.original))
                                   EXCEPT !.saved = q.saved]]
                /\ shutdown_triggered' = sb.triggered
                /\ thread' = IF sb.start THEN [thread EXCEPT ![r] = "sleeping"]
                             ELSE thread
           ELSE IF Len(q.files) > 1
           THEN /\ req' = [req EXCEPT ![r].pc = "read",
                                      ![r].saved = Append(q.saved, target_name),
                                      ![r].files = Tail(q.files),
                                      ![r].original =
                                          sanitize_filename(q.files[2], now)]
                /\ UNCHANGED <<shutdown_triggered, thread>>
           ELSE /\ req' = [req EXCEPT ![r] =
                               [Answer(r, q.route, q.token, q.authorized,
                                       Resp(200, <<"saved">>))
                                   EXCEPT !.saved = Append(q.saved, target_name)]]
                /\ shutdown_triggered' = sb.triggered
                /\ thread' = IF sb.start THEN [thread EXCEPT ![r] = "sleeping"]
                             ELSE thread
    /\ Quiet
    /\ UNCHANGED <<disk, written>>

(* After "await file.close()": the 500 of a failed write, or the next file *)
(* up to its read, or the end of the loop: the shutdown block and the      *)
(* response.                                                               *)
upload_files_closed(r) ==
    /\ phase \in {"serving", "stopping"} /\ req[r].pc = "close"
    /\ LET q == req[r]
           target_name == TargetName(q.timestamp, q.original)
           sb == upload_shutdown_block(exit_on_upload, shutdown_triggered)
       IN  IF q.failed
           THEN /\ req' = [req EXCEPT ![r] =
                               [Answer(r, q.route, q.token, q.authorized,
                                       Resp(500, <<"Failed to save">> \o q.original))
                                   EXCEPT !.saved = q.saved]]
                /\ UNCHANGED <<shutdown_triggered, thread>>
           ELSE IF Len(q.files) > 1
           THEN /\ req' = [req EXCEPT ![r].pc = "read",
                                      ![r].saved = Append(q.saved, target_name),
                                      ![r].files = Tail(q.files),
                                      ![r].original =
                                          sanitize_filename(q.files[2], now)]
                /\ UNCHANGED <<shutdown_triggered, thread>>
           ELSE /\ req' = [req EXCEPT ![r] =
                               [Answer(r, q.route, q.token, q.authorized,
                                       Resp(200, <<"saved">>))
                                   EXCEPT !.saved = Append(q.saved, target_name)]]
                /\ shutdown_triggered' = sb.triggered
                /\ thread' = IF sb.start THEN [thread EXCEPT ![r] = "sleeping"]
                             ELSE thread
    /\ Quiet
    /\ UNCHANGED <<disk, written>>

health(r) ==
    /\ phase = "serving" /\ Arrives(r)
    /\ req' = [req EXCEPT ![r] = Answer(r, "health", "", FALSE, Resp(200, <<"ok">>))]
    /\ Quiet
    /\ UNCHANGED <<shutdown_triggered, disk, written, thread>>

----------------------------------------------------------------------------
(* build_share_app: the share routes *)

ItemIds == -1..2

(* A variant of share_page that counts a served listing as a transfer. *)
share_page_counts(r, token, readFails) ==
    /\ phase = "serving" /\ mode = "share" /\ Arrives(r)
    /\ LET gate == ensure_valid(token_to_expiry, token, now)
           resp == IF gate # NoResp THEN gate
                   ELSE IF readFails THEN Resp(500, <<"Failed to read share.html">>)
                   ELSE Resp(200, <<"listing", token>>)
           counts == resp.status = 200 /\ exit_on_upload /\ ~shutdown_triggered
       IN  /\ req' = [req EXCEPT ![r] = Answer(r, "share_page", token,
                                               TokenLive(token, now), resp)]
           /\ shutdown_triggered' = (shutdown_triggered \/ counts)
           /\ thread' = IF counts THEN [thread EXCEPT ![r] = "sleeping"] ELSE thread
    /\ Quiet
    /\ UNCHANGED <<disk, written>>

share_page(r, token, readFails) ==
    /\ phase = "serving" /\ mode = "share" /\ Arrives(r)
    /\ LET gate == ensure_valid(token_to_expiry, token, now)
           resp == IF gate # NoResp THEN gate
                   ELSE IF readFails THEN Resp(500, <<"Failed to read share.html">>)
                   ELSE Resp(200, <<"listing", token>>)
       IN  req' = [req EXCEPT ![r] = Answer(r, "share_page", token,
                                            TokenLive(token, now), resp)]
    /\ Quiet
    /\ UNCHANGED <<shutdown_triggered, disk, written, thread>>

(* A variant of download_outcome without the test that the file exists. *)
download_outcome_unchecked(store, token, t, item_id, its, exist, exit_on, triggered) ==
    LET gate == ensure_valid(store, token, t)
        sb == download_shutdown_block(exit_on, triggered)
        quiet(resp) == [resp |-> resp, triggered |-> triggered, start |-> FALSE]
    IN  IF gate # NoResp THEN quiet(gate)
        ELSE IF item_id < 0 \/ item_id >= Len(its)
        THEN quiet(Resp(404, <<"Item not found">>))
        ELSE [resp |-> Resp(200, <<"file">> \o its[item_id + 1].display),
              triggered |-> sb.triggered, start |-> sb.start]

(* The outcome of download_item: its response, the new flag, and whether   *)
(* the _shutdown thread is started.  The handler has no await.             *)
download_outcome(store, token, t, item_id, its, exist, exit_on, triggered) ==
    LET gate == ensure_valid(store, token, t)
        sb == download_shutdown_block(exit_on, triggered)
        quiet(resp) == [resp |-> resp, triggered |-> triggered, start |-> FALSE]
    IN  IF gate # NoResp THEN quiet(gate)
        ELSE IF item_id < 0 \/ item_id >= Len(its)
        THEN quiet(Resp(404, <<"Item not found">>))
        ELSE IF its[item_id + 1].path \notin exist
        THEN quiet(Resp(404, <<"File no longer available">>))
        ELSE [resp |-> Resp(200, <<"file">> \o its[item_id + 1].display),
              triggered |-> sb.triggered, start |-> sb.start]

(* A variant of download_item that sleeps and sends the signal itself. *)
download_item_kills_inline(r, token, item_id) ==
    /\ phase = "serving" /\ mode = "share" /\ Arrives(r)
    /\ LET out == download_outcome(token_to_expiry, token, now, item_id, items,
                                   existing, exit_on_upload, shutdown_triggered)
       IN  /\ req' = [req EXCEPT ![r] =
                         [Answer(r, "download_item", token, TokenLive(token, now),
                                 out.resp)
                             EXCEPT !.item = item_id]]
           /\ shutdown_triggered' = out.triggered
           /\ thread' = IF out.start THEN [thread EXCEPT ![r] = "killed"] ELSE thread
           /\ sigints' = IF out.start THEN sigints + 1 ELSE sigints
           /\ phase' = IF out.start THEN "stopping" ELSE phase
    /\ UNCHANGED <<exitCode, mode, now, token_to_expiry, exit_on_upload, items,
                   existing, tempDir, atexitRegistered, disk, written, issued,
                   probe, share_args, sanitize_call>>

download_item(r, token, item_id) ==
    /\ phase = "serving" /\ mode = "share" /\ Arrives(r)
    /\ LET out == download_outcome(token_to_expiry, token, now, item_id, items,
                                   existing, exit_on_upload, shutdown_triggered)
       IN  /\ req' = [req EXCEPT ![r] =
                         [Answer(r, "download_item", token, TokenLive(token, now),
                                 out.resp)
                             EXCEPT !.item = item_id]]
           /\ shutdown_triggered' = out.triggered
           /\ thread' = IF out.start THEN [thread EXCEPT ![r] = "sleeping"] ELSE thread
    /\ Quiet
    /\ UNCHANGED <<disk, written>>

(* A shared file or archive disappears from the disk. *)
FileVanishes(p) ==
    /\ phase = "serving" /\ p \in existing
    /\ existing' = existing \ {p}
    /\ UNCHANGED <<phase, exitCode, mode, now, token_to_expiry, exit_on_upload,
                   shutdown_triggered, items, tempDir, atexitRegistered, disk,
                   written, req, thread, sigints, issued, probe, share_args, sanitize_call>>

----------------------------------------------------------------------------
(* The server: the response leaves after the handler has returned it *)

SendResponse(r) ==
    /\ phase \in {"serving", "stopping"} /\ req[r].pc = "responding"
    /\ req' = [req EXCEPT ![r].pc = "done"]
    /\ Quiet
    /\ UNCHANGED <<shutdown_triggered, disk, written, thread>>

(* A variant of _shutdown that gives up instead of sending the signal. *)
shutdown_thread_gives_up(r) ==
    /\ phase \in {"serving", "stopping"} /\ thread[r] = "sleeping"
    /\ thread' = [thread EXCEPT ![r] = "none"]
    /\ UNCHANGED <<phase, exitCode, mode, now, token_to_expiry, exit_on_upload,
                   shutdown_triggered, items, existing, tempDir, atexitRegistered,
                   disk, written, req, sigints, issued, probe, share_args,
                   sanitize_call>>

(* _shutdown: time.sleep(0.25) has returned; os.kill(getpid(), SIGINT). *)
shutdown_thread(r) ==
    /\ phase \in {"serving", "stopping"} /\ thread[r] = "sleeping"
    /\ thread' = [thread EXCEPT ![r] = "killed"]
    /\ sigints' = sigints + 1
    /\ phase' = "stopping"
    /\ UNCHANGED <<exitCode, mode, now, token_to_expiry, exit_on_upload,
                   shutdown_triggered, items, existing, tempDir, atexitRegistered,
                   disk, written, req, issued, probe, share_args, sanitize_call>>

(* Ctrl+C. *)
OperatorInterrupt ==
    /\ phase = "serving"
    /\ phase' = "stopping"
    /\ UNCHANGED <<exitCode, mode, now, token_to_expiry, exit_on_upload,
                   shutdown_triggered, items, existing, tempDir, atexitRegistered,
                   disk, written, req, thread, sigints, issued, probe, share_args, sanitize_call>>

(* uvicorn.run returns once the requests in flight are answered; main()    *)
(* returns 0 and the atexit handler removes temp_dir.                      *)
ServerExit ==
    /\ phase = "stopping"
    /\ \A r \in Reqs : ~InFlight(r)
    /\ phase' = "exited"
    /\ exitCode' = 0
    /\ tempDir' = IF atexitRegistered /\ tempDir = "present" THEN "removed" ELSE tempDir
    /\ existing' = IF atexitRegistered THEN {p \in existing : p.loc # "tmp"}
                   ELSE existing
    /\ UNCHANGED <<mode, now, token_to_expiry, exit_on_upload, shutdown_triggered,
                   items, atexitRegistered, disk, written, req, thread, sigints,
                   issued, probe, share_args, sanitize_call>>

----------------------------------------------------------------------------

Next ==
    \/ \E m \in {"upload", "share"}, ttl \in TtlMinutes, exit \in BOOLEAN,
          paths \in SharePathLists, archiveFails \in BOOLEAN :
            Main(m, ttl, exit, paths, archiveFails)
    \/ \E d \in Steps : Tick(d)
    \/ \E r \in Reqs, token \in Tokens, readFails \in BOOLEAN :
            upload_page(r, token, readFails)
    \/ \E r \in Reqs, token \in Tokens, files \in FileLists :
            upload_files(r, token, files)
    \/ \E r \in Reqs, writeFails \in BOOLEAN : upload_files_write(r, writeFails)
    \/ \E r \in Reqs : upload_files_closed(r)
    \/ \E r \in Reqs : health(r)
    \/ \E r \in Reqs, token \in Tokens, readFails \in BOOLEAN :
            share_page(r, token, readFails)
    \/ \E r \in Reqs, token \in Tokens, item_id \in ItemIds :
            download_item(r, token, item_id)
    \/ \E p \in existing : FileVanishes(p)
    \/ \E r \in Reqs : SendResponse(r)
    \/ \E r \in Reqs : shutdown_thread(r)
    \/ OperatorInterrupt
    \/ ServerExit

Spec == Init /\ [][Next]_vars

(* The _shutdown thread is a thread of the running process: once started   *)
(* it sleeps and then runs, as long as the process is alive.               *)
SpecFair == Spec /\ \A r \in Reqs : WF_vars(shutdown_thread(r))

----------------------------------------------------------------------------
(* The TokenStore on its own: any sequence of add_token and is_valid calls *)
(* on one store, with time passing in between.                             *)

MaxAdds == 3
MaxStoreClock == 3
StoreTimes == 0..MaxStoreClock

Last(s) == s[Len(s)]
Adds == Len(issued["tok"]) + Len(issued["bad"])

StoreAdd(token, expires_at) ==
    /\ Adds < MaxAdds
    /\ token_to_expiry' = add_token(token_to_expiry, token, expires_at)
    /\ issued' = [issued EXCEPT ![token] = Append(@, expires_at)]
    /\ UNCHANGED <<phase, exitCode, mode, now, exit_on_upload, shutdown_triggered,
                   items, existing, tempDir, atexitRegistered, disk, written, req,
                   thread, sigints, probe, share_args, sanitize_call>>

StoreIsValid(token) ==
    /\ probe' = [token |-> token, at |-> now, added |-> issued[token],
                 result |-> is_valid(token_to_expiry, token, now)]
    /\ UNCHANGED <<phase, exitCode, mode, now, token_to_expiry, exit_on_upload,
                   shutdown_triggered, items, existing, tempDir, atexitRegistered,
                   disk, written, req, thread, sigints, issued, share_args,
                   sanitize_call>>

StoreTick ==
    /\ now < MaxStoreClock
    /\ now' = now + 1
    /\ UNCHANGED <<phase, exitCode, mode, token_to_expiry, exit_on_upload,
                   shutdown_triggered, items, existing, tempDir, atexitRegistered,
                   disk, written, req, thread, sigints, issued, probe, share_args, sanitize_call>>

NextStore ==
    \/ \E token \in Tokens, expires_at \in StoreTimes : StoreAdd(token, expires_at)
    \/ \E token \in Tokens : StoreIsValid(token)
    \/ StoreTick

SpecStore == Init /\ [][NextStore]_vars

----------------------------------------------------------------------------
(* sanitize_filename on its own: any call, on any filename of at most      *)
(* MaxNameLen characters, at any second of the clock.                      *)

MaxNameLen == 3
NameChars == {"a", ".", "/", "_"}
FileNames == UNION {[1..n -> NameChars] : n \in 0..MaxNameLen}

SanitizeCall(filename) ==
    /\ sanitize_call' = [input |-> filename, at |-> now,
                         output |-> sanitize_filename(filename, now)]
    /\ UNCHANGED <<phase, exitCode, mode, now, token_to_expiry, exit_on_upload,
                   shutdown_triggered, items, existing, tempDir, atexitRegistered,
                   disk, written, req, thread, sigints, issued, probe, share_args>>

NextSanitize ==
    \/ \E filename \in FileNames : SanitizeCall(filename)
    \/ StoreTick

SpecSanitize == Init /\ [][NextSanitize]_vars

----------------------------------------------------------------------------
(* The same program when threading.Thread(...).start() may raise           *)
(* (RuntimeError: can't start new thread).  Neither handler catches it: the *)
(* flag is already set, no thread runs, and the exception leaves the       *)
(* handler, which the server answers with 500 Internal Server Error.       *)

upload_files_closed_start_raises(r) ==
    /\ phase \in {"serving", "stopping"} /\ req[r].pc = "close"
    /\ LET q == req[r]
           target_name == TargetName(q.timestamp, q.original)
           sb == upload_shutdown_block(exit_on_upload, shutdown_triggered)
       IN  /\ ~q.failed /\ Len(q.files) <= 1 /\ sb.start
           /\ req' = [req EXCEPT ![r] =
                         [Answer(r, q.route, q.token, q.authorized,
                                 Resp(500, <<"Internal Server Error">>))
                             EXCEPT !.saved = Append(q.saved, target_name)]]
           /\ shutdown_triggered' = sb.triggered
           /\ thread' = [thread EXCEPT ![r] = "failed"]
    /\ Quiet
    /\ UNCHANGED <<disk, written>>

download_item_start_raises(r, token, item_id) ==
    /\ phase = "serving" /\ mode = "share" /\ Arrives(r)
    /\ LET out == download_outcome(token_to_expiry, token, now, item_id, items,
                                   existing, exit_on_upload, shutdown_triggered)
       IN  /\ out.start
           /\ req' = [req EXCEPT ![r] =
                         [Answer(r, "download_item", token, TokenLive(token, now),
                                 Resp(500, <<"Internal Server Error">>))
                             EXCEPT !.item = item_id]]
           /\ shutdown_triggered' = out.triggered
           /\ thread' = [thread EXCEPT ![r] = "failed"]
    /\ Quiet
    /\ UNCHANGED <<disk, written>>

NextStartFails ==
    \/ Next
    \/ \E r \in Reqs : upload_files_closed_start_raises(r)
    \/ \E r \in Reqs, token \in Tokens, item_id \in ItemIds :
            download_item_start_raises(r, token, item_id)

SpecStartFails == Init /\ [][NextStartFails]_vars

----------------------------------------------------------------------------
(* Claims *)

Protected == {"upload_page", "upload_files", "share_page", "download_item"}
Answered(r) == req[r].pc \in {"responding", "done"}
Transfer(r) == req[r].route \in {"upload_files", "download_item"} /\ req[r].status = 200
Schedulers == {r \in Reqs : thread[r] # "none"}

(* C1: with exit-on-transfer enabled, however the successful transfers     *)
(* interleave, exactly one of them starts the delayed SIGINT thread and    *)
(* the others start nothing.                                               *)
C1_ExactlyOneSchedules ==
    /\ Cardinality(Schedulers) <= 1
    /\ (exit_on_upload /\ \E r \in Reqs : Transfer(r)) => Cardinality(Schedulers) = 1
    /\ \A r \in Schedulers : Transfer(r)

C1_Witness ==
    /\ exit_on_upload
    /\ \E r1, r2 \in Reqs :
          /\ r1 # r2
          /\ Transfer(r1) /\ Transfer(r2)
          /\ req[r1].pc = "responding" /\ req[r2].pc = "responding"
          /\ Schedulers = {r2}

(* C2: a request to a protected route whose token is unknown or expired at *)
(* its check is answered 404, and has written no file, served no page,     *)
(* listing or file, and started no shutdown thread.                        *)
C2_TokenGate ==
    \A r \in Reqs :
        (req[r].route \in Protected /\ ~req[r].authorized) =>
            /\ Answered(r)
            /\ req[r].status = 404
            /\ req[r].saved = <<>>
            /\ \A w \in written : w.req # r
            /\ thread[r] = "none"
            /\ req[r].body[1] \notin {"upload_form", "saved", "listing", "file"}

C2_Witness ==
    \E r1, r2 \in Reqs :
        /\ req[r1].route = "upload_files" /\ req[r1].token = IssuedToken
        /\ ~req[r1].authorized /\ req[r1].pc = "done"
        /\ req[r2].route = "upload_files" /\ req[r2].authorized
        /\ req[r2].status = 200

(* C3: is_valid(T) is true exactly when T has been added to the store and  *)
(* the clock at the call is at or before the expiry last stored for T; a   *)
(* token never added gets false.                                           *)
C3_IsValidIff ==
    probe.token # "" =>
        /\ probe.result \in BOOLEAN
        /\ probe.result <=> (probe.added # <<>> /\ probe.at <= Last(probe.added))

C3_Witness ==
    /\ probe.token # ""
    /\ probe.result
    /\ probe.at = Last(probe.added)
    /\ probe.at > 0
    /\ \E t \in Tokens : issued[t] = <<>>

(* C4: the token is issued once, by main(); no step after that changes the *)
(* store; issued with a ttl above zero it is valid at once; and a request  *)
(* whose handler starts after the clock has passed the expiry is answered  *)
(* 404.                                                                    *)
C4_IssuedOnceNeverRenewed ==
    [][ /\ (phase = "start") =>
              /\ Len(issued'[IssuedToken]) = 1
              /\ issued'["bad"] = <<>>
              /\ token_to_expiry'[IssuedToken] = <<Last(issued'[IssuedToken])>>
              /\ (Last(issued'[IssuedToken]) > now' =>
                     is_valid(token_to_expiry', IssuedToken, now'))
        /\ (phase # "start") =>
              /\ token_to_expiry' = token_to_expiry
              /\ issued' = issued
        /\ \A r \in Reqs :
              (/\ phase # "start"
               /\ req[r].pc = "idle" /\ req'[r].pc # "idle"
               /\ req'[r].route \in Protected
               /\ now > Last(issued[IssuedToken])) => req'[r].status = 404
      ]_vars

C4_Witness ==
    /\ issued[IssuedToken] = <<SecondsPerMinute>>
    /\ \E r1, r2 \in Reqs :
          /\ req[r1].token = IssuedToken /\ req[r1].status = 200
          /\ req[r2].token = IssuedToken /\ req[r2].status = 404
          /\ req[r2].route = req[r1].route

(* C5: with exit-on-transfer disabled no shutdown is ever scheduled: the   *)
(* flag stays false, no _shutdown thread exists and the program sends no   *)
(* SIGINT, whatever transfers succeed.                                     *)
C5_DisabledNeverSchedules ==
    ~exit_on_upload =>
        /\ ~shutdown_triggered
        /\ \A r \in Reqs : thread[r] = "none"
        /\ sigints = 0

C5_Witness ==
    /\ ~exit_on_upload
    /\ phase = "serving"
    /\ \E r1, r2 \in Reqs : r1 # r2 /\ Transfer(r1) /\ Transfer(r2)
                              /\ req[r1].pc = "done" /\ req[r2].pc = "done"

(* C6: a shutdown thread exists only for a request whose response has      *)
(* already left: the transfer that triggers the shutdown is complete       *)
(* before the shutdown is scheduled.                                       *)
C6_ScheduledAfterResponse ==
    \A r \in Reqs : thread[r] # "none" => req[r].pc = "done"

(* C6, the consequence: the SIGINT of a request's thread is sent only      *)
(* after that request's response has left.                                 *)
C6_SignalAfterResponse ==
    \A r \in Reqs : thread[r] = "killed" => req[r].pc = "done"

(* C7: the flag only goes from false to true; once it is true no step      *)
(* starts another shutdown thread, and a transfer that completes after     *)
(* that is still answered 200.                                             *)
C7_FlagSingleUse ==
    [][ /\ shutdown_triggered => shutdown_triggered'
        /\ shutdown_triggered =>
              \A r \in Reqs : thread[r] = "none" => thread'[r] = "none"
        /\ \A r \in Reqs :
              (/\ shutdown_triggered
               /\ req[r].pc = "idle" /\ req'[r].route = "download_item"
               /\ TokenLive(req'[r].token, now)
               /\ req'[r].item >= 0 /\ req'[r].item < Len(items)
               /\ items[req'[r].item + 1].path \in existing)
              => (req'[r].status = 200 /\ req'[r].body[1] = "file")
        /\ \A r \in Reqs :
              (/\ shutdown_triggered
               /\ req[r].pc = "close" /\ ~req[r].failed /\ Len(req[r].files) = 1
               /\ req'[r].pc # "close")
              => (req'[r].status = 200 /\ Len(req'[r].saved) = Len(req[r].saved) + 1)
      ]_vars

C7_Witness ==
    /\ shutdown_triggered
    /\ \E r1, r2 \in Reqs :
          /\ thread[r1] = "sleeping" /\ req[r1].pc = "done"
          /\ Transfer(r2) /\ thread[r2] = "none" /\ req[r2].pc = "done"

(* C8: no two writes of uploaded files, of one batch or of different       *)
(* requests, go to the same target name.                                   *)
C8_NoTwoWritesSameName ==
    \A w1, w2 \in written :
        (w1.req # w2.req \/ w1.idx # w2.idx) => w1.name # w2.name

(* C9: on one route, every request rejected at the token check gets the    *)
(* same status and body, whether its token was never issued or was issued  *)
(* and has expired.                                                        *)
C9_UniformRejection ==
    \A r1, r2 \in Reqs :
        (/\ req[r1].route \in Protected /\ req[r2].route = req[r1].route
         /\ ~req[r1].authorized /\ ~req[r2].authorized) =>
            /\ req[r1].status = 404 /\ req[r2].status = 404
            /\ req[r1].body = req[r2].body

C9_Witness ==
    \E r1, r2 \in Reqs :
        /\ req[r1].route = "download_item" /\ req[r2].route = "download_item"
        /\ req[r1].token = "bad" /\ issued["bad"] = <<>>
        /\ req[r2].token = IssuedToken /\ ~req[r2].authorized
        /\ Answered(r1) /\ Answered(r2)

(* C10: download_item answers with the file at the index exactly when the  *)
(* token is live, the index is within the items and the file exists; in    *)
(* every other case it answers 404 and leaves the flag and the threads as  *)
(* they were.                                                              *)
C10_DownloadIff ==
    [][ \A r \in Reqs :
          (req[r].pc = "idle" /\ req'[r].route = "download_item") =>
              LET q == req'[r]
                  ok == /\ TokenLive(q.token, now)
                        /\ q.item >= 0 /\ q.item < Len(items)
                        /\ items[q.item + 1].path \in existing
              IN  /\ ok => /\ q.status = 200
                           /\ q.body = <<"file">> \o items[q.item + 1].display
                  /\ ~ok => /\ q.status = 404
                            /\ shutdown_triggered' = shutdown_triggered
                            /\ thread' = thread
      ]_vars

C10_Witness ==
    /\ exit_on_upload /\ ~shutdown_triggered
    /\ \E r1, r2 \in Reqs :
          /\ req[r1].route = "download_item" /\ req[r1].authorized
          /\ req[r1].status = 404 /\ req[r1].item = 0
          /\ req[r2].route = "download_item" /\ req[r2].authorized
          /\ req[r2].status = 404 /\ req[r2].item = Len(items)

(* C11: when write_bytes fails on a file of a batch, the request is        *)
(* answered 500 with a message that names that file (by the sanitized form *)
(* of its filename, the handler's "original"), not with a 'saved' list;    *)
(* the request writes nothing afterwards, and it schedules no shutdown     *)
(* even when exit-on-transfer is enabled.                                  *)
C11_FailedWriteAborts ==
    [][\A r \in Reqs :
          LET q == req[r]
              q2 == req'[r]
              name == SubSeq(q2.body, 2, Len(q2.body))
          IN  /\ (q.pc = "close" /\ q.failed /\ q2 # q) =>
                    /\ q2.pc = "responding"
                    /\ q2.status = 500
                    /\ q2.body[1] = "Failed to save"
                    /\ \/ name = Filter(q.files[1])
                       \/ Filter(q.files[1]) = <<>> /\ name[1] = "file_"
                    /\ written' = written
                    /\ thread' = thread /\ thread[r] = "none"
                    /\ shutdown_triggered' = shutdown_triggered
              /\ (q.route = "upload_files" /\ q.status = 500) =>
                    /\ q2.status = 500 /\ q2.body = q.body
                    /\ q.body[1] # "saved"
                    /\ {w \in written' : w.req = r} = {w \in written : w.req = r}
                    /\ thread'[r] = "none"
      ]_vars

(* A two-file batch whose first file was written and whose second failed,  *)
(* with exit-on-transfer enabled and still no shutdown scheduled.          *)
C11_Witness ==
    /\ exit_on_upload /\ ~shutdown_triggered
    /\ \E r \in Reqs :
          /\ req[r].route = "upload_files" /\ req[r].status = 500
          /\ req[r].pc = "done"
          /\ Len(req[r].saved) = 1
          /\ Cardinality({w \in written : w.req = r}) = 1
          /\ thread[r] = "none"

PathSeparators == {"/", "\\"}
HasDotDot(s) == \E i \in 1..(Len(s) - 1) : s[i] = "." /\ s[i + 1] = "."
IsFallback(s) == Len(s) = 2 /\ s[1] = "file_"

(* C12: the result of sanitize_filename holds no path separator and no     *)
(* ".." substring, and is made only of alphanumeric characters and of      *)
(* - _ . ( ) and space.                                                    *)
C12_SanitizedIsSafe ==
    LET out == sanitize_call.output
    IN  /\ \A i \in 1..Len(out) : out[i] \notin PathSeparators
        /\ ~HasDotDot(out)
        /\ IsFallback(out) \/ \A i \in 1..Len(out) : out[i] \in AlnumChars \cup KeepChars

(* C12, the part that holds: no path separator, and only kept characters   *)
(* (or the "file_<seconds>" name given when nothing is kept).              *)
C12_OnlyKeptCharacters ==
    LET out == sanitize_call.output
    IN  /\ \A i \in 1..Len(out) : out[i] \notin PathSeparators
        /\ IsFallback(out) \/ \A i \in 1..Len(out) : out[i] \in AlnumChars \cup KeepChars

(* C13: once the process has exited, by whatever path, no temporary        *)
(* archive directory it created is left behind.                            *)
C13_TempDirRemovedOnExit ==
    phase = "exited" => tempDir # "present"

(* C13, the part that holds: a process that got as far as serving leaves   *)
(* no temporary directory behind when it exits.                            *)
C13_RemovedAfterServing ==
    (phase = "exited" /\ exitCode = 0) => tempDir # "present"

Missing(paths) == \E i \in 1..Len(paths) : PathKind(paths[i]) = "missing"

(* C14: when a --share path does not exist the process has exited with     *)
(* status 2 without ever serving, with no temporary directory and nothing  *)
(* archived; a share server that is or was running, and an exit status 0,  *)
(* mean that every path existed.                                           *)
C14_MissingPathExitsTwo ==
    /\ (share_args # None /\ Missing(share_args)) =>
          /\ phase = "exited" /\ exitCode = 2
          /\ mode = "none"
          /\ tempDir = "none"
          /\ items = <<>> /\ existing = {}
          /\ \A r \in Reqs : req[r].pc = "idle"
    /\ (share_args # None /\ (mode = "share" \/ exitCode = 0)) =>
          ~Missing(share_args)

(* A directory given before the missing path: exit 2, nothing archived.    *)
C14_Witness ==
    /\ Len(share_args) = 2
    /\ PathKind(share_args[1]) = "dir" /\ PathKind(share_args[2]) = "missing"
    /\ phase = "exited" /\ exitCode = 2 /\ tempDir = "none"

(* All paths exist: the server ran and the process exited with status 0.   *)
C14_ServedWitness ==
    /\ share_args # None /\ ~Missing(share_args)
    /\ phase = "exited" /\ exitCode = 0

(* C15: an add_token of a token already in the store replaces its expiry:  *)
(* from then on is_valid of that token is true exactly up to the new       *)
(* expiry, earlier or later than the old one, and is_valid of every other  *)
(* token is what it was, at every instant.                                 *)
C15_ReissueOverwrites ==
    [][\A T \in Tokens :
          Len(issued'[T]) = Len(issued[T]) + 1 =>
              LET e2 == Last(issued'[T])
              IN  /\ \A t \in StoreTimes :
                        is_valid(token_to_expiry', T, t) <=> (t <= e2)
                  /\ \A U \in Tokens \ {T} : \A t \in StoreTimes :
                        is_valid(token_to_expiry', U, t)
                            = is_valid(token_to_expiry, U, t)
      ]_vars

(* A token issued until e1 and then again until an earlier e2 is found     *)
(* invalid after e2 though e1 has not passed, while the other token, added *)
(* before the re-issue, is in the store.                                   *)
C15_Witness ==
    /\ Len(probe.added) = 2
    /\ probe.added[2] < probe.at /\ probe.at <= probe.added[1]
    /\ ~probe.result
    /\ \E U \in Tokens \ {probe.token} : Len(issued[U]) = 1

(* The shutdown controller: 0 Idle, 1 ShutdownScheduled (the flag is set,  *)
(* the process not yet interrupted), 2 Terminating (interrupted).          *)
Controller ==
    IF phase \in {"stopping", "exited"} THEN 2
    ELSE IF shutdown_triggered THEN 1
    ELSE 0

(* C16: a scheduled shutdown is never cancelled (the controller never      *)
(* moves back, a started thread stays started until it has sent its        *)
(* signal), and under fair scheduling of the thread a scheduled shutdown   *)
(* leads to the interrupt of the process: the thread sends its SIGINT      *)
(* unless the process has already exited.                                  *)
C16_ShutdownInevitable ==
    /\ [][/\ Controller' >= Controller
          /\ \A r \in Reqs :
                /\ thread[r] = "sleeping" => thread'[r] \in {"sleeping", "killed"}
                /\ thread[r] = "killed" => thread'[r] = "killed"]_vars
    /\ (Controller = 1) ~> (Controller = 2)
    /\ \A r \in Reqs :
          (thread[r] = "sleeping") ~> (thread[r] = "killed" \/ phase = "exited")

(* A shutdown was scheduled, another request arrived and was served        *)
(* meanwhile, and the thread has sent its signal.                          *)
C16_Witness ==
    /\ sigints = 1
    /\ \E r1, r2 \in Reqs :
          /\ r1 # r2
          /\ thread[r1] = "killed"
          /\ req[r2].pc = "done" /\ req[r2].status = 200 /\ thread[r2] = "none"

(* C17: a transfer whose start of the shutdown thread raised is still      *)
(* answered with its success response (the saved list, or the file).       *)
C17_StartFailureStillSucceeds ==
    \A r \in Reqs :
        thread[r] = "failed" =>
            req[r].status = 200 /\ req[r].body[1] \in {"saved", "file"}

(* C18: the handler that schedules the shutdown returns its response in    *)
(* the step that starts the thread, with the thread still in its sleep;    *)
(* no step of a handler sends the signal, which is sent only by the step   *)
(* of a started thread after its sleep.                                    *)
C18_FireAndForget ==
    [][/\ sigints' # sigints =>
             /\ sigints' = sigints + 1
             /\ req' = req
             /\ \E r \in Reqs : thread[r] = "sleeping" /\ thread'[r] = "killed"
       /\ \A r \in Reqs :
             /\ (thread[r] = "none" /\ thread'[r] # "none") =>
                   /\ thread'[r] = "sleeping"
                   /\ req[r].pc # "responding" /\ req'[r].pc = "responding"
                   /\ req'[r].status = 200
                   /\ sigints' = sigints /\ phase' = phase
             /\ req'[r] # req[r] => sigints' = sigints
      ]_vars

(* The response of the scheduling request has left while its thread is     *)
(* still asleep and no signal has been sent.                               *)
C18_Witness ==
    /\ sigints = 0 /\ phase = "serving"
    /\ \E r \in Reqs : req[r].pc = "done" /\ thread[r] = "sleeping"

(* C19: a GET of the upload page, of the share page or of /health, with    *)
(* any token, leaves the token store, the upload directory, the shutdown   *)
(* flag and the threads as they were; /health is answered 200 'ok'.        *)
C19_PagesChangeNothing ==
    [][\A r \in Reqs :
          (req[r].pc = "idle"
              /\ req'[r].route \in {"upload_page", "share_page", "health"}) =>
                /\ token_to_expiry' = token_to_expiry
                /\ disk' = disk /\ written' = written
                /\ shutdown_triggered' = shutdown_triggered
                /\ thread' = thread /\ sigints' = sigints /\ phase' = phase
                /\ req'[r].route = "health" =>
                      req'[r].status = 200 /\ req'[r].body = <<"ok">>
      ]_vars

(* Exit-on-transfer is enabled, a listing and a health check were served   *)
(* with the valid token, and no shutdown is scheduled.                     *)
C19_Witness ==
    /\ exit_on_upload /\ ~shutdown_triggered
    /\ \E r1, r2 \in Reqs :
          /\ req[r1].route = "share_page" /\ req[r1].status = 200
          /\ req[r1].pc = "done"
          /\ req[r2].route = "health" /\ req[r2].status = 200
          /\ req[r2].pc = "done"
    /\ \A r \in Reqs : thread[r] = "none"

(* /health answers 'ok' after a shutdown has been scheduled.               *)
C19_HealthWhileScheduled ==
    /\ shutdown_triggered
    /\ \E r1, r2 \in Reqs :
          /\ thread[r1] = "sleeping"
          /\ req[r2].route = "health" /\ req[r2].body = <<"ok">>

WrittenBy(r) == {w \in written : w.req = r}

(* C20: the token is checked once, when the handler starts.  Every file    *)
(* written and every thread started belongs to a request whose check       *)
(* succeeded; and an upload past its check goes on whatever the token has  *)
(* become: each file read is written (or its write fails), each file       *)
(* closed is followed by the next, and after the last one the request is   *)
(* answered 200 and, when exit-on-transfer is enabled and no shutdown is   *)
(* scheduled yet, starts the shutdown thread.                              *)
C20_CheckedOnceAtEntry ==
    /\ [](/\ \A w \in written : req[w.req].authorized
          /\ \A r \in Reqs : thread[r] # "none" => req[r].authorized
          /\ \A r \in Reqs : req[r].pc \in {"read", "close"} => req[r].authorized)
    /\ [][\A r \in Reqs :
             LET q == req[r]
                 q2 == req'[r]
             IN  /\ (q.pc = "read" /\ q2 # q) =>
                       /\ q2.pc = "close"
                       /\ \/ q2.failed /\ written' = written
                          \/ Cardinality(WrittenBy(r)') = Cardinality(WrittenBy(r)) + 1
                 /\ (q.pc = "close" /\ ~q.failed /\ q2 # q) =>
                       IF Len(q.files) > 1
                       THEN q2.pc = "read" /\ Len(q2.saved) = Len(q.saved) + 1
                       ELSE /\ q2.status = 200 /\ q2.body = <<"saved">>
                            /\ Len(q2.saved) = Cardinality(WrittenBy(r))
                            /\ (exit_on_upload /\ ~shutdown_triggered) =>
                                  thread'[r] = "sleeping"
        ]_vars

(* An upload that passed its check and has written its first file is about *)
(* to write the second after the token has expired.                        *)
C20_Witness ==
    \E r \in Reqs :
        /\ req[r].route = "upload_files" /\ req[r].authorized
        /\ req[r].pc = "read" /\ Len(req[r].saved) = 1
        /\ ~TokenLive(req[r].token, now)

(* The upload is complete, with both files written and the shutdown        *)
(* scheduled, and the token has expired meanwhile.                         *)
C20_CompletedAfterExpiry ==
    \E r \in Reqs :
        /\ req[r].route = "upload_files" /\ req[r].status = 200
        /\ Len(req[r].saved) = 2 /\ Cardinality(WrittenBy(r)) = 2
        /\ thread[r] = "sleeping"
        /\ ~TokenLive(req[r].token, now)

====
